---- MODULE Spec2Model ----
(***************************************************************************)
(* A model of the decision-tree learner of src/decisiontree.py: the        *)
(* entropy metrics (H, B, Remainder, Gain), the recursive induction        *)
(* (generate / _generate) and the classification traversal (classify).     *)
(*                                                                         *)
(* Python values are represented as follows.                               *)
(*  - An example (a namedtuple) is the tuple <<v1, ..., vm, c>> of its     *)
(*    attribute values followed by its classification.                     *)
(*  - Attribute indices are 1-based here (Python index a is a+1), and the  *)
(*    Python value None in slot 0 of a tree is the index 0.                *)
(*  - A tree value is a record with a tag: "str" (a bare label), "tuple"   *)
(*    (slots = <<A, child1, ..., childn>>), "None" (no tree) or "exc" (an  *)
(*    exception that propagates out of the call, named by label).          *)
(*  - Floats are fixed-point integers.  A ratio of two counts x/y is the   *)
(*    integer x*K/y (K a common multiple of every count that can occur,    *)
(*    so the division is exact); log2 is tabulated at four decimals, with  *)
(*    log2(a*b) = log2(a) + log2(b) kept exact; an entropy is therefore an *)
(*    integer multiple of 1/One.  Two gains are equal here exactly when    *)
(*    they are equal as real numbers.                                      *)
(***************************************************************************)
EXTENDS Integers, Sequences, FiniteSets, TLC

\* Bounds of the model.
MaxExamples == 3
MaxDepth == 1
MaxProbs == 3

VARIABLES examples, p, n, tree, depth, avoid, last, probs, hval

vars == <<examples, p, n, tree, depth, avoid, last, probs, hval>>

----------------------------------------------------------------------------
\* The declarations made by the driver before training.

classes == <<"B", "A">>

PositiveClasses == {"A"}

attrs == <<"attr1", "attr2">>

attr_values == [attr1 |-> <<"True", "False">>, attr2 |-> <<"x", "y", "z">>]

None == 0

Range(s) == {s[i] : i \in 1..Len(s)}

classification(dp) == dp[Len(attrs) + 1]

classifier(dp) == classification(dp) \in PositiveClasses

getattr(example, feature) ==
    example[CHOOSE i \in 1..Len(attrs) : attrs[i] = feature]

----------------------------------------------------------------------------
\* Fixed-point arithmetic.

RECURSIVE GCD(_, _)
GCD(a, b) == IF b = 0 THEN a ELSE GCD(b, a % b)

RECURSIVE LCMUpTo(_)
LCMUpTo(m) == IF m <= 1 THEN 1
              ELSE LET l == LCMUpTo(m - 1) IN (l * m) \div GCD(l, m)

K == LCMUpTo(MaxExamples)

log2tab == <<0, 10000, 15850, 20000, 23219, 25850, 28074, 30000>>

One == K * log2tab[2]

Ratio(x, y) == (x * K) \div y

Mul(ratio, x) == (ratio * x) \div K

log2(vk) == LET g == GCD(vk, K) IN log2tab[vk \div g] - log2tab[K \div g]

RECURSIVE SumSeq(_)
SumSeq(s) == IF s = <<>> THEN 0 ELSE Head(s) + SumSeq(Tail(s))

----------------------------------------------------------------------------
\* Tree values.

Str(c) == [tag |-> "str", label |-> c, slots |-> <<>>]

Tuple(s) == [tag |-> "tuple", label |-> "", slots |-> s]

NoneValue == [tag |-> "None", label |-> "", slots |-> <<>>]

Exc(name) == [tag |-> "exc", label |-> name, slots |-> <<>>]

isTuple(v) == v.tag = "tuple"

----------------------------------------------------------------------------
\* Class methods.

plurality_value(exs, classs) ==
    LET total == Len(SelectSeq(exs, LAMBDA x : classification(x) = classs))
    IN  Ratio(total, Len(exs))

fully_classified_first(exs) ==
    plurality_value(exs, classes[1]) = K

fully_classified(exs) ==
    \E c \in 1..Len(classes) : plurality_value(exs, classes[c]) = K

plurality_last(exs) ==
    IF Len(exs) = 0 THEN Exc("ZeroDivisionError")
    ELSE LET best == CHOOSE c \in 1..Len(classes) :
                        /\ \A d \in 1..Len(classes) :
                              plurality_value(exs, classes[d])
                                  <= plurality_value(exs, classes[c])
                        /\ \A d \in (c + 1)..Len(classes) :
                              plurality_value(exs, classes[d])
                                  < plurality_value(exs, classes[c])
         IN  Str(classes[best])

plurality(exs) ==
    IF Len(exs) = 0 THEN Exc("ZeroDivisionError")
    ELSE LET best == CHOOSE c \in 1..Len(classes) :
                        /\ \A d \in 1..Len(classes) :
                              plurality_value(exs, classes[d])
                                  <= plurality_value(exs, classes[c])
                        /\ \A d \in 1..(c - 1) :
                              plurality_value(exs, classes[d])
                                  < plurality_value(exs, classes[c])
         IN  Str(classes[best])

H(ps) ==
    IF \E i \in 1..Len(ps) : ps[i] <= 0 THEN 0
    ELSE -1 * SumSeq([i \in 1..Len(ps) |-> log2(ps[i]) * ps[i]])

B(q) == H(<<q, K - q>>)

pos_neg(exs) ==
    LET pos == Len(SelectSeq(exs, classifier)) IN <<pos, Len(exs) - pos>>

Remainder(exs, A, V, pp, nn) ==
    SumSeq([d \in 1..Len(V) |->
        LET Ek == SelectSeq(exs, LAMBDA dp : dp[A] = V[d])
            pk == pos_neg(Ek)[1]
            nk == pos_neg(Ek)[2]
        IN  IF pk + nk = 0 THEN 0
            ELSE Mul(Ratio(pk + nk, pp + nn), B(Ratio(pk, pk + nk)))])

Gain(exs, A, V, pp, nn) ==
    B(Ratio(pp, pp + nn)) - Remainder(exs, A, V, pp, nn)

----------------------------------------------------------------------------
\* generate: the recursive induction.

domain(idx) == attr_values[attrs[idx]]

max(s) == CHOOSE x \in Range(s) : \A y \in Range(s) : y <= x

index(s, x) == CHOOSE i \in 1..Len(s) : s[i] = x /\ \A j \in 1..(i - 1) : s[j] # x

gains(exs, parent_examples, used) ==
    LET pn == pos_neg(parent_examples)
    IN  [a \in 1..Len(attrs) |->
            IF attrs[a] \in Range(used) THEN -1 * One
            ELSE Gain(exs, a, domain(a), pn[1], pn[2])]

argmax_last(gain) ==
    CHOOSE i \in 1..Len(gain) :
        gain[i] = max(gain) /\ \A j \in (i + 1)..Len(gain) : gain[j] # max(gain)

argmax(gain) == index(gain, max(gain))

partition(exs, A, vk) == SelectSeq(exs, LAMBDA dp : dp[A] = vk)

branch_reversed(A, children) ==
    Tuple(<<A>> \o [k \in 1..Len(children) |-> children[Len(children) + 1 - k]])

branch(A, children) == Tuple(<<A>> \o children)

empty_branch_default(parent_examples) == Str(classes[1])

empty_branch(parent_examples) == plurality(parent_examples)

RECURSIVE _generate(_, _, _, _)

subtree_off_by_one(d, exs, A, vk, used) ==
    IF d = 1 THEN plurality(exs)
    ELSE _generate(d - 1, partition(exs, A, vk), exs, used)

subtree(d, exs, A, vk, used) ==
    IF d = 0 THEN plurality(exs)
    ELSE _generate(d - 1, partition(exs, A, vk), exs, used)

_generate(d, exs, parent_examples, used_attrs) ==
    IF exs = <<>> THEN empty_branch(parent_examples)
    ELSE IF fully_classified(exs) THEN Str(classification(exs[1]))
    ELSE IF Range(attrs) \ Range(used_attrs) = {} THEN plurality(exs)
    ELSE LET A == argmax(gains(exs, parent_examples, used_attrs))
             used == Append(used_attrs, attrs[A])
             children ==
                 [k \in 1..Len(domain(A)) |-> subtree(d, exs, A, domain(A)[k], used)]
         IN  branch(A, children)

generate_ignoring_avoid(exs, d, av) ==
    LET t == _generate(d, exs, exs, <<>>)
    IN  IF t.tag = "exc" THEN t
        ELSE IF ~isTuple(t) THEN Tuple(<<None, t>>)
        ELSE t

generate(exs, d, av) ==
    LET t == _generate(d, exs, exs, av)
    IN  IF t.tag = "exc" THEN t
        ELSE IF ~isTuple(t) THEN Tuple(<<None, t>>)
        ELSE t

----------------------------------------------------------------------------
\* classify: the traversal structure and its evaluation.

Dict(c, attr, items) == [tag |-> "dict", label |-> c, attr |-> attr, items |-> items]

slot_of_mirrored(V, key) ==
    CHOOSE j \in 1..Len(V) : V[Len(V) + 1 - j] = key

slot_of(V, key) ==
    CHOOSE j \in 1..Len(V) : V[j] = key /\ \A l \in (j + 1)..Len(V) : V[l] # key

RECURSIVE traversify(_)
traversify(node) ==
    IF node.tag # "tuple" THEN Exc("TypeError")
    ELSE IF node.slots[1] = None THEN Dict(node.slots[2].label, "", <<>>)
    ELSE LET attr == attrs[node.slots[1]]
             V == attr_values[attr]
         IN  Dict("", attr,
                  [key \in Range(V) |->
                      LET i == slot_of(V, key)
                      IN  IF isTuple(node.slots[i + 1])
                          THEN traversify(node.slots[i + 1])
                          ELSE node.slots[i + 1]])

RECURSIVE use_classifier(_, _)
use_classifier(subtree_, example) ==
    IF subtree_.attr = "" THEN subtree_.label
    ELSE LET vk == getattr(example, subtree_.attr)
         IN  IF subtree_.items[vk].tag = "str"
                  /\ subtree_.items[vk].label \in Range(classes)
             THEN subtree_.items[vk].label
             ELSE use_classifier(subtree_.items[vk], example)

classify(xs, hypothesis) ==
    LET c == traversify(hypothesis)
    IN  IF c.tag = "exc" THEN c
        ELSE [tag |-> "list", label |-> "",
              slots |-> [i \in 1..Len(xs) |-> use_classifier(c, xs[i])]]

----------------------------------------------------------------------------
\* The state machine.  A training run: the store has been filled by
\* load_examples, then generate is called with a depth budget and an avoid
\* list, and classify is called on the training examples, in any order and any
\* number of times.

Universe ==
    <<  <<"True", "x", "B">>, <<"True", "x", "A">>, <<"True", "y", "B">>,
        <<"True", "y", "A">>, <<"True", "z", "B">>, <<"True", "z", "A">>,
        <<"False", "x", "B">>, <<"False", "x", "A">>, <<"False", "y", "B">>,
        <<"False", "y", "A">>, <<"False", "z", "B">>, <<"False", "z", "A">> >>

\* The code reads a training list by position only at examples[0]; everything
\* else goes through filters and counts.  The lists are drawn with any first
\* example and the others in the order of Universe.
TrainingLists ==
    UNION {{[i \in 1..l |-> Universe[f[i]]] :
              f \in {g \in [1..l -> 1..Len(Universe)] :
                        \A i \in 2..(l - 1) : g[i] <= g[i + 1]}} :
           l \in 0..MaxExamples}

Depths == -1..MaxDepth

Avoids == {<<>>, <<attrs[1]>>, <<attrs[2]>>, attrs}

Weights == {Ratio(a, b) : a \in 0..MaxExamples, b \in 1..MaxExamples} \cap 0..K

WeightLists == UNION {[1..l -> Weights] : l \in 1..MaxProbs}

Call(op, error, result) == [op |-> op, error |-> error, result |-> result]

load_examples(tuples) ==
    /\ examples = tuples
    /\ p = pos_neg(tuples)[1]
    /\ n = pos_neg(tuples)[2]

Init ==
    /\ \E tuples \in TrainingLists : load_examples(tuples)
    /\ tree = NoneValue
    /\ depth \in Depths
    /\ avoid \in Avoids
    /\ last = Call("init", "none", <<>>)
    /\ probs = <<>>
    /\ hval = 0

Generate ==
    \E r \in {generate(examples, depth, avoid)} :
        /\ tree' = IF r.tag = "exc" THEN tree ELSE r
        /\ last' = Call("generate", IF r.tag = "exc" THEN r.label ELSE "none", <<>>)
        /\ UNCHANGED <<examples, p, n, depth, avoid, probs, hval>>

Classify ==
    \E r \in {classify(examples, tree)} :
        /\ last' = Call("classify",
                        IF r.tag = "exc" THEN r.label ELSE "none",
                        IF r.tag = "exc" THEN <<>> ELSE r.slots)
        /\ UNCHANGED <<examples, p, n, tree, depth, avoid, probs, hval>>

Next ==
    \/ Generate
    \/ Classify

Spec == Init /\ [][Next]_vars

\* The entropy function on its own: the weights are drawn first, then H is applied.

InitH ==
    /\ load_examples(<<>>)
    /\ tree = NoneValue
    /\ depth = -1
    /\ avoid = <<>>
    /\ last = Call("init", "none", <<>>)
    /\ probs \in WeightLists
    /\ hval = 0

CallH ==
    /\ last.op = "init"
    /\ hval' = H(probs)
    /\ last' = Call("H", "none", <<>>)
    /\ UNCHANGED <<examples, p, n, tree, depth, avoid, probs>>

NextH == CallH

SpecH == InitH /\ [][NextH]_vars

----------------------------------------------------------------------------
\* Vocabulary of the properties, stated on the examples without the metrics.

generated == last.op = "generate" /\ last.error = "none"

isInternal(node) == isTuple(node) /\ node.slots[1] # None

isDegenerate(node) == isTuple(node) /\ node.slots[1] = None

labels(exs) == {classification(exs[i]) : i \in 1..Len(exs)}

pure(exs) == Cardinality(labels(exs)) = 1

matching(exs, A, vk) == SelectSeq(exs, LAMBDA e : e[A] = vk)

votes(exs, c) == Cardinality({i \in 1..Len(exs) : classification(exs[i]) = c})

\* The class with the most examples, the first declared one among several.
majority(exs) ==
    classes[CHOOSE c \in 1..Len(classes) :
                /\ \A d \in 1..Len(classes) : votes(exs, classes[d]) <= votes(exs, classes[c])
                /\ \A d \in 1..(c - 1) : votes(exs, classes[d]) < votes(exs, classes[c])]

unused(used) == {a \in 1..Len(attrs) : attrs[a] \notin Range(used)}

RECURSIVE ChildrenFollowDomain(_, _, _)
ChildrenFollowDomain(node, exs, d) ==
    isInternal(node) =>
        /\ node.slots[1] \in 1..Len(attrs)
        /\ Len(node.slots) = Len(domain(node.slots[1])) + 1
        /\ \A k \in 1..Len(domain(node.slots[1])) :
              LET child == node.slots[k + 1]
                  part == matching(exs, node.slots[1], domain(node.slots[1])[k])
              IN  IF isTuple(child)
                  THEN d # 0 /\ isInternal(child) /\ ChildrenFollowDomain(child, part, d - 1)
                  ELSE /\ child.tag = "str"
                       /\ child.label \in
                             (IF d = 0 \/ part = <<>> THEN labels(exs) ELSE labels(part))

\* C1: every Internal Node has one slot for its attribute index and one child
\* per value of that attribute's domain, and the k-th child is the one built
\* for the k-th declared value: a subtree of the examples with that value, or
\* a leaf whose label occurs among them (among the examples being split when
\* no example has that value, or when the depth budget is exhausted).
C1_ChildCount == generated => ChildrenFollowDomain(tree, examples, depth)

C1_Witness ==
    /\ generated
    /\ isInternal(tree)
    /\ Len(tree.slots) = 3
    /\ \E k \in 2..3 : isInternal(tree.slots[k]) /\ Len(tree.slots[k].slots) = 4
    /\ \E k \in 2..3 : tree.slots[k].tag = "str"

RECURSIVE NoRepeat(_, _)
NoRepeat(node, seen) ==
    isInternal(node) =>
        /\ attrs[node.slots[1]] \notin seen
        /\ \A k \in 2..Len(node.slots) :
              NoRepeat(node.slots[k], seen \cup {attrs[node.slots[1]]})

\* C2: along every root-to-leaf path no attribute is the splitting attribute of
\* two Internal Nodes, and no attribute of the avoid list is one at all.
C2_NoRepeat == generated => NoRepeat(tree, Range(avoid))

C2_Witness ==
    /\ generated
    /\ avoid = <<>>
    /\ isInternal(tree)
    /\ tree.slots[1] = 1
    /\ \E k \in 1..Len(domain(1)) :
          LET part == matching(examples, 1, domain(1)[k])
          IN  /\ isInternal(tree.slots[k + 1])
              /\ tree.slots[k + 1].slots[1] = 2
              /\ Gain(part, 1, domain(1), p, n) >= Gain(part, 2, domain(2), p, n)

\* C3: a non-empty example set of one classification c yields the Degenerate
\* Leaf (None, c), whatever the depth budget and the avoid list.
C3_Purity ==
    (generated /\ examples # <<>> /\ pure(examples))
        => tree = Tuple(<<None, Str(classification(examples[1]))>>)

C3_Witness ==
    /\ generated
    /\ Len(examples) >= 2
    /\ pure(examples)
    /\ depth = 0
    /\ avoid = <<>>
    /\ \E i \in 1..Len(examples) : examples[i][1] # examples[1][1]
    /\ isDegenerate(tree)

\* C4: with depth budget 0, a non-pure example set and an attribute left
\* unused, the result is one Internal Node whose children are all leaves
\* labelled with the majority class of the whole example set.
C4_DepthZero ==
    (generated /\ depth = 0 /\ examples # <<>> /\ ~pure(examples) /\ unused(avoid) # {})
        => /\ isInternal(tree)
           /\ \A k \in 2..Len(tree.slots) : tree.slots[k] = Str(majority(examples))

C4_Witness ==
    /\ generated
    /\ depth = 0
    /\ avoid = <<>>
    /\ ~pure(examples)
    /\ isInternal(tree)
    /\ \E k \in 1..Len(domain(tree.slots[1])) :
          LET part == matching(examples, tree.slots[1], domain(tree.slots[1])[k])
          IN  part # <<>> /\ majority(part) # majority(examples)

\* C5: when the avoid list covers every declared attribute, a non-empty example
\* set yields the Degenerate Leaf of its majority class, for every depth budget.
C5_Exhausted ==
    (generated /\ examples # <<>> /\ unused(avoid) = {})
        => tree = Tuple(<<None, Str(majority(examples))>>)

C5_Witness ==
    /\ generated
    /\ unused(avoid) = {}
    /\ ~pure(examples)
    /\ votes(examples, classes[1]) = votes(examples, classes[2])
    /\ isDegenerate(tree)

RECURSIVE reached(_, _, _)
reached(node, exs, e) ==
    IF ~isInternal(node) THEN exs
    ELSE LET A == node.slots[1]
             k == CHOOSE j \in 1..Len(domain(A)) : domain(A)[j] = e[A]
         IN  IF isTuple(node.slots[k + 1])
             THEN reached(node.slots[k + 1], matching(exs, A, e[A]), e)
             ELSE matching(exs, A, e[A])

classified == last.op = "classify" /\ last.error = "none"

\* C6: in the tree induced with unbounded depth and an empty avoid list,
\* classifying a training example returns its own classification whenever the
\* leaf it reaches was built from examples of one classification.
C6_RoundTrip ==
    (classified /\ depth = -1 /\ avoid = <<>>)
        => /\ Len(last.result) = Len(examples)
           /\ \A i \in 1..Len(examples) :
                 pure(reached(tree, examples, examples[i]))
                     => last.result[i] = classification(examples[i])

C6_Witness ==
    /\ classified
    /\ depth = -1
    /\ avoid = <<>>
    /\ isInternal(tree)
    /\ \E k \in 2..Len(tree.slots) : isInternal(tree.slots[k])
    /\ \E i \in 1..Len(examples) :
          /\ pure(reached(tree, examples, examples[i]))
          /\ last.result[i] = classification(examples[i])
          /\ examples[i][2] # domain(2)[1]
    /\ \E i \in 1..Len(examples) :
          /\ ~pure(reached(tree, examples, examples[i]))
          /\ last.result[i] # classification(examples[i])

perfect(exs, a) ==
    \A k \in 1..Len(domain(a)) :
        \/ \A i \in 1..Len(exs) : exs[i][a] = domain(a)[k] => classifier(exs[i])
        \/ \A i \in 1..Len(exs) : exs[i][a] = domain(a)[k] => ~classifier(exs[i])

RECURSIVE SelectsBest(_, _, _, _)
SelectsBest(node, exs, parent_examples, used) ==
    isInternal(node) =>
        LET A == node.slots[1]
            pn == pos_neg(parent_examples)
            g(a) == Gain(exs, a, domain(a), pn[1], pn[2])
        IN  /\ A \in unused(used)
            /\ \A a \in unused(used) : g(a) <= g(A) /\ (a < A => g(a) < g(A))
            /\ (\E a \in unused(used) : perfect(exs, a)) => perfect(exs, A)
            /\ \A k \in 1..Len(domain(A)) :
                  SelectsBest(node.slots[k + 1], matching(exs, A, domain(A)[k]),
                              exs, Append(used, attrs[A]))

\* C7: at every split the splitting attribute is an unused attribute of
\* maximal gain, the earliest such; and when some unused attribute separates the
\* positive from the negative examples in every partition, the splitting
\* attribute does so too.
C7_GainSelection == generated => SelectsBest(tree, examples, examples, avoid)

C7_Witness ==
    /\ generated
    /\ avoid = <<>>
    /\ Len(examples) = 3
    /\ isInternal(tree)
    /\ tree.slots[1] = 2
    /\ perfect(examples, 2)
    /\ ~perfect(examples, 1)
    /\ Remainder(examples, 1, domain(1), p, n) > 0

\* C8: generate on zero examples, and classify before any tree was induced,
\* each end in a dedicated "no data" / "not trained" error.
C8_DegenerateInput ==
    /\ (last.op = "generate" /\ examples = <<>>) => last.error = "NoData"
    /\ (last.op = "classify" /\ tree = NoneValue) => last.error = "NotTrained"

EntropyOfNonZero(ps) ==
    -1 * SumSeq([i \in 1..Len(ps) |-> IF ps[i] = 0 THEN 0 ELSE log2(ps[i]) * ps[i]])

\* C9: the entropy of a list of probability weights is the sum of
\* -p*log2(p) over its non-zero weights: a zero weight contributes 0.
C9_ZeroWeights ==
    (last.op = "H" /\ SumSeq(probs) = K) => hval = EntropyOfNonZero(probs)

RECURSIVE EmptyBranches(_, _, _)
EmptyBranches(node, exs, d) ==
    (isInternal(node) /\ d # 0) =>
        \A k \in 1..Len(domain(node.slots[1])) :
            LET part == matching(exs, node.slots[1], domain(node.slots[1])[k])
            IN  IF part = <<>>
                THEN node.slots[k + 1] = Str(majority(exs))
                ELSE EmptyBranches(node.slots[k + 1], part, d - 1)

\* C10: when no example of the set being split has some value of the selected
\* attribute and the depth budget is not exhausted, the child for that value
\* is a leaf holding the majority class of the set being split, the first
\* declared class among several with the highest count.
C10_EmptyBranch == generated => EmptyBranches(tree, examples, depth)

C10_Witness ==
    /\ generated
    /\ depth = -1
    /\ isInternal(tree)
    /\ tree.slots[1] = 1
    /\ \E k \in 1..Len(domain(1)) :
          LET part == matching(examples, 1, domain(1)[k])
          IN  /\ isInternal(tree.slots[k + 1])
              /\ votes(part, classes[1]) = votes(part, classes[2])
              /\ \E j \in 1..Len(domain(2)) :
                    /\ matching(part, 2, domain(2)[j]) = <<>>
                    /\ tree.slots[k + 1].slots[j + 1] = Str(classes[1])
    /\ majority(examples) = classes[2]

====
